---------------------------- MODULE Spec2Model ----------------------------
(***************************************************************************)
(* Model of eagle-dev/releasing/execution.py: the module imports platform  *)
(* and defines one function,                                               *)
(*                                                                         *)
(*     def is_windows():                                                   *)
(*         s = platform.system().lower()          (line 29)                *)
(*         return s.startswith("win")             (line 30)                *)
(*                                                                         *)
(* A string is a sequence of one-character strings.  The platform name the *)
(* runtime reports is the variable platform_system; every caller runs the  *)
(* two lines of is_windows as two steps, so that calls of different        *)
(* callers and changes of the reported name interleave.  The boundary of   *)
(* the model is the value platform.system() returns: how the library       *)
(* obtains or caches it is not code of this module.  Case folding is that  *)
(* of the ASCII letters, the characters platform names are made of.        *)
(***************************************************************************)
EXTENDS Naturals, Sequences, FiniteSets, TLC

\* Longest platform name of the exhaustively enumerated names.
MaxLen == 3

\* Number of callers whose calls interleave.
NumCallers == 2

Callers == 1..NumCallers

(***************************************************************************)
(* Strings.                                                                *)
(***************************************************************************)
UpperCase == <<"A","B","C","D","E","F","G","H","I","J","K","L","M",
               "N","O","P","Q","R","S","T","U","V","W","X","Y","Z">>

LowerCase == <<"a","b","c","d","e","f","g","h","i","j","k","l","m",
               "n","o","p","q","r","s","t","u","v","w","x","y","z">>

\* str.lower() on one character: a cased character maps to its lowercase
\* partner, every other character is kept.
char_lower(ch) ==
    IF \E i \in DOMAIN UpperCase : UpperCase[i] = ch
    THEN LowerCase[CHOOSE i \in DOMAIN UpperCase : UpperCase[i] = ch]
    ELSE ch

\* A lower() that folds the first character only.
str_lower_first_only(str) ==
    [i \in 1..Len(str) |-> IF i = 1 THEN char_lower(str[i]) ELSE str[i]]

\* The name used as reported, lower() left out.
str_lower_left_out(str) == str

\* str.lower(): a new string, the same length, every character lowered.
str_lower(str) == [i \in 1..Len(str) |-> char_lower(str[i])]

\* A substring test ("win" in s) in the place of the prefix test.
str_contains(str, prefix) ==
    \E k \in 0..Len(str) :
        /\ k + Len(prefix) <= Len(str)
        /\ SubSeq(str, k + 1, k + Len(prefix)) = prefix

\* str.startswith(prefix): false when the string is shorter than the prefix,
\* otherwise the comparison of its first Len(prefix) characters.
str_startswith(str, prefix) ==
    /\ Len(str) >= Len(prefix)
    /\ SubSeq(str, 1, Len(prefix)) = prefix

\* The literal "win" of line 30.
Prefix == <<"w","i","n">>

\* The value one undisturbed call computes from a reported name.
detect(name) == str_startswith(str_lower(name), Prefix)

(***************************************************************************)
(* Platform names.                                                         *)
(***************************************************************************)
Alphabet == {"w","W","i","I","n","N","3"}

\* Every string over Alphabet of length at most MaxLen.
BoundedNames == UNION {[1..n -> Alphabet] : n \in 0..MaxLen}

Windows   == <<"W","i","n","d","o","w","s">>
WINDOWS   == <<"W","I","N","D","O","W","S">>
windows   == <<"w","i","n","d","o","w","s">>
win32     == <<"w","i","n","3","2">>
Linux     == <<"L","i","n","u","x">>
Darwin    == <<"D","a","r","w","i","n">>
CYGWIN_NT == <<"C","Y","G","W","I","N","_","N","T">>
Empty     == <<>>

\* Names platform.system() reports on real hosts, in the spellings runtimes use.
PlatformNames ==
    {Empty, Linux, Darwin, CYGWIN_NT, Windows, WINDOWS, windows, win32}

AllNames == BoundedNames \cup PlatformNames

(***************************************************************************)
(* State.                                                                  *)
(***************************************************************************)
VARIABLES
    platform_system,  \* the name platform.system() reports now
    module_globals,   \* the names bound at module level
    pc,               \* pc[c]: where caller c is in is_windows
    s,                \* s[c]: the local s of caller c's frame
    ret,              \* ret[c]: <<>> or <<v>>, v the value c's call returned
    seen,             \* seen[c]: the name c's call read from the environment
    first,            \* <<>> or <<v>>: result of the first call completed
                      \* since the reported name last changed
    last              \* <<>> or <<name, v>>: the call completed most recently

vars == <<platform_system, module_globals, pc, s, ret, seen, first, last>>

ModuleNames == {"platform", "is_windows"}

TypeOK ==
    /\ platform_system \in AllNames
    /\ module_globals = ModuleNames
    /\ pc \in [Callers -> {"idle", "line30", "returned"}]
    /\ \A c \in Callers :
        /\ ret[c] \in {<<>>, <<TRUE>>, <<FALSE>>}
        /\ seen[c] \in AllNames
    /\ first \in {<<>>, <<TRUE>>, <<FALSE>>}
    /\ last = <<>> \/ (Len(last) = 2 /\ last[1] \in AllNames /\ last[2] \in BOOLEAN)

InitCallers ==
    /\ module_globals = ModuleNames
    /\ pc = [c \in Callers |-> "idle"]
    /\ s = [c \in Callers |-> <<>>]
    /\ ret = [c \in Callers |-> <<>>]
    /\ seen = [c \in Callers |-> <<>>]
    /\ first = <<>>
    /\ last = <<>>

\* The process starts on some host.
Init ==
    /\ platform_system \in PlatformNames
    /\ InitCallers

\* The function applied to every name of the bounded domain.
InitPure ==
    /\ platform_system \in AllNames
    /\ InitCallers

(***************************************************************************)
(* Operations.                                                             *)
(***************************************************************************)

\* Line 29 with the local s declared global: one s for all callers.
is_windows_line29_global_s(c) ==
    /\ pc[c] \in {"idle", "returned"}
    /\ s' = [d \in Callers |-> str_lower(platform_system)]
    /\ seen' = [seen EXCEPT ![c] = platform_system]
    /\ ret' = [ret EXCEPT ![c] = <<>>]
    /\ pc' = [pc EXCEPT ![c] = "line30"]
    /\ module_globals' = module_globals \cup {"s"}
    /\ UNCHANGED <<platform_system, first, last>>

\* Line 29 answering from the name of the previous call when there is one.
is_windows_line29_memoized(c) ==
    /\ pc[c] \in {"idle", "returned"}
    /\ s' = [s EXCEPT ![c] =
                IF last = <<>> THEN str_lower(platform_system)
                               ELSE str_lower(last[1])]
    /\ seen' = [seen EXCEPT ![c] = platform_system]
    /\ ret' = [ret EXCEPT ![c] = <<>>]
    /\ pc' = [pc EXCEPT ![c] = "line30"]
    /\ UNCHANGED <<platform_system, module_globals, first, last>>

\* s = platform.system().lower(): caller c enters is_windows, reads the
\* reported name and binds its lowercased form to the local s.
is_windows_line29(c) ==
    /\ pc[c] \in {"idle", "returned"}
    /\ s' = [s EXCEPT ![c] = str_lower(platform_system)]
    /\ seen' = [seen EXCEPT ![c] = platform_system]
    /\ ret' = [ret EXCEPT ![c] = <<>>]
    /\ pc' = [pc EXCEPT ![c] = "line30"]
    /\ UNCHANGED <<platform_system, module_globals, first, last>>

\* The bookkeeping of a completed call: its frame is gone, its result is
\* with the caller.
Returned(c, v) ==
    /\ ret' = [ret EXCEPT ![c] = <<v>>]
    /\ pc' = [pc EXCEPT ![c] = "returned"]
    /\ s' = [s EXCEPT ![c] = <<>>]
    /\ first' = IF first = <<>> /\ seen[c] = platform_system THEN <<v>> ELSE first
    /\ last' = <<seen[c], v>>
    /\ UNCHANGED <<platform_system, module_globals, seen>>

\* Line 30 comparing s[0], s[1], s[2] with "w", "i", "n": an IndexError on a
\* string shorter than three characters.
is_windows_line30_indexing(c) ==
    /\ pc[c] = "line30"
    /\ IF Len(s[c]) < Len(Prefix)
       THEN /\ pc' = [pc EXCEPT ![c] = "raised"]
            /\ s' = [s EXCEPT ![c] = <<>>]
            /\ UNCHANGED <<platform_system, module_globals, ret, seen, first, last>>
       ELSE Returned(c, SubSeq(s[c], 1, Len(Prefix)) = Prefix)

\* Line 30 answering true once an earlier call has answered true.
is_windows_line30_sticky(c) ==
    /\ pc[c] = "line30"
    /\ Returned(c, str_startswith(s[c], Prefix) \/ (last # <<>> /\ last[2]))

\* return s.startswith("win")
is_windows_line30(c) ==
    /\ pc[c] = "line30"
    /\ Returned(c, str_startswith(s[c], Prefix))

\* The environment reports another platform name from now on.
EnvChange ==
    /\ \E name \in PlatformNames \ {platform_system} :
        platform_system' = name
    /\ first' = <<>>
    /\ UNCHANGED <<module_globals, pc, s, ret, seen, last>>

NextCalls ==
    \E c \in Callers : is_windows_line29(c) \/ is_windows_line30(c)

Next == NextCalls \/ EnvChange

\* Concurrent callers on a host whose reported name may change.
Spec == Init /\ [][Next]_vars

\* The function on every name of the bounded domain, the name held fixed.
SpecPure == InitPure /\ [][NextCalls]_vars

(***************************************************************************)
(* Vocabulary of the properties.                                           *)
(***************************************************************************)

\* The name begins with the letters w, i, n in either case.
BeginsWithWinIgnoringCase(name) ==
    /\ Len(name) >= 3
    /\ name[1] \in {"w", "W"}
    /\ name[2] \in {"i", "I"}
    /\ name[3] \in {"n", "N"}

\* The character in the other case, or the character itself when uncased.
swap_case(ch) ==
    IF \E i \in DOMAIN UpperCase : UpperCase[i] = ch
    THEN LowerCase[CHOOSE i \in DOMAIN UpperCase : UpperCase[i] = ch]
    ELSE IF \E i \in DOMAIN LowerCase : LowerCase[i] = ch
         THEN UpperCase[CHOOSE i \in DOMAIN LowerCase : LowerCase[i] = ch]
         ELSE ch

\* The names that differ from name only in the case of their letters.
RECURSIVE CaseVariants(_)
CaseVariants(name) ==
    IF name = <<>> THEN {<<>>}
    ELSE {<<h>> \o t : h \in {Head(name), swap_case(Head(name))},
                       t \in CaseVariants(Tail(name))}

\* Caller c takes a step of its call.
StepOf(c) == pc'[c] # pc[c]

\* Caller c's call returns in this step.
Returns(c) == pc[c] = "line30" /\ pc'[c] = "returned"

\* Everything of caller d's call.
FrameOf(d) == <<pc[d], s[d], ret[d], seen[d]>>

(***************************************************************************)
(* Properties.                                                             *)
(***************************************************************************)

\* C1: a call returns true if and only if the name it read begins, after
\* lowercasing, with "win"; it returns false for every other name.
C1_TrueIffLoweredPrefixWin ==
    \A c \in Callers :
        pc[c] = "returned" => ret[c] = <<BeginsWithWinIgnoringCase(seen[c])>>

C1_Witness ==
    \E c \in Callers :
        pc[c] = "returned" /\ seen[c] = <<"W","i","N">> /\ ret[c] = <<TRUE>>

\* C2: the result does not depend on letter case: a call returns what an
\* undisturbed call returns for every name that differs from the one it read
\* only in the case of its letters, and it returns true for "WINDOWS",
\* "Windows", "windows" and "win32".
C2_CaseInsensitive ==
    \A c \in Callers :
        pc[c] = "returned" =>
            /\ \A m \in CaseVariants(seen[c]) : ret[c] = <<detect(m)>>
            /\ seen[c] \in {WINDOWS, Windows, windows, win32} => ret[c] = <<TRUE>>

C2_Witness ==
    \E c \in Callers :
        pc[c] = "returned" /\ seen[c] = WINDOWS /\ ret[c] = <<TRUE>>

\* C3: for a name that does not begin with "win" after lowercasing (the
\* empty name, a name shorter than three characters, a name holding "win"
\* later on) the call ends by returning false, not by raising.
C3_FalseWithoutError ==
    \A c \in Callers :
        (pc[c] \in {"returned", "raised"} /\ ~BeginsWithWinIgnoringCase(seen[c]))
            => (pc[c] = "returned" /\ ret[c] = <<FALSE>>)

C3_Witness ==
    \E c \in Callers :
        pc[c] = "returned" /\ seen[c] = Empty /\ ret[c] = <<FALSE>>

\* C4: while the reported name does not change, every call returns the
\* value the first call of that period returned.
C4_Idempotent ==
    [][\A c \in Callers :
          (Returns(c) /\ seen[c] = platform_system /\ first # <<>>)
              => ret'[c] = first]_vars

C4_Witness ==
    \E c, d \in Callers :
        /\ c # d
        /\ pc[c] = "returned" /\ pc[d] = "returned"
        /\ seen[c] = platform_system /\ seen[d] = platform_system
        /\ first = ret[c] /\ first = ret[d]

\* C5: a step of a call changes neither the reported platform name nor the
\* module-level state.
C5_NoSideEffects ==
    [][\A c \in Callers :
          StepOf(c) => /\ platform_system' = platform_system
                       /\ module_globals' = module_globals]_vars

C5_Witness ==
    \E c \in Callers :
        /\ pc[c] = "returned"
        /\ seen[c] = platform_system
        /\ module_globals = ModuleNames

\* C6: a call that follows a call made under another name returns the value
\* of the name reported when it was made, not that of the earlier name.
C6_NoMemoization ==
    [][\A c \in Callers :
          (Returns(c) /\ last # <<>> /\ last[1] # seen[c])
              => ret'[c] = <<BeginsWithWinIgnoringCase(seen[c])>>]_vars

C6_Witness ==
    \E c, d \in Callers :
        /\ pc[c] = "returned" /\ pc[d] = "returned"
        /\ seen[c] # seen[d] /\ ret[c] # ret[d]
        /\ last = <<seen[d], ret[d][1]>>
        /\ platform_system = seen[d]

\* C7: with calls interleaved in any order, a call returns what an
\* undisturbed call returns for the name it read, and a step of one caller
\* leaves every other caller's call as it was.
C7_ConcurrentSafe ==
    [][\A c \in Callers :
          StepOf(c) =>
              /\ \A d \in Callers \ {c} : FrameOf(d)' = FrameOf(d)
              /\ pc'[c] = "returned" => ret'[c] = <<detect(seen[c])>>]_vars

C7_Witness ==
    \E c, d \in Callers :
        /\ pc[c] = "returned" /\ pc[d] = "line30"
        /\ ret[c] = <<TRUE>> /\ ~detect(seen[d])
        /\ platform_system # seen[c] /\ platform_system # seen[d]

\* C8: a call is total: whatever name is reported, every line of the call
\* can be taken, the call never ends in an error, and what it returns is
\* true or false.
C8_Total ==
    \A c \in Callers :
        /\ pc[c] # "raised"
        /\ pc[c] \in {"idle", "returned"} => ENABLED is_windows_line29(c)
        /\ pc[c] = "line30" => ENABLED is_windows_line30(c)
        /\ pc[c] = "returned" => ret[c] \in {<<TRUE>>, <<FALSE>>}

C8_Witness ==
    \E c \in Callers :
        pc[c] = "returned" /\ seen[c] = <<"w","i">> /\ ret[c] \in {<<TRUE>>, <<FALSE>>}

\* C9: the result depends on the name read and on nothing else: two calls
\* that read the same name, whatever happened before or between them,
\* returned the same value.
C9_Deterministic ==
    \A c \in Callers :
        pc[c] = "returned" =>
            /\ \A d \in Callers :
                (pc[d] = "returned" /\ seen[d] = seen[c]) => ret[d] = ret[c]
            /\ (last # <<>> /\ last[1] = seen[c]) => ret[c] = <<last[2]>>

C9_Witness ==
    \E c, d \in Callers :
        /\ c # d
        /\ pc[c] = "returned" /\ pc[d] = "returned"
        /\ seen[c] = seen[d] /\ ret[c] = ret[d]
        /\ last = <<seen[c], ret[c][1]>>
        /\ platform_system # seen[c]

=============================================================================
